---- MODULE Spec2Model ----
(***************************************************************************)
(* Model of webscraping-parliament.py: the three tabulation helpers        *)
(* (count_member, cross_count_member, cross_distinct_key) and the script   *)
(* that scrapes the member listing, exports it and writes the report.      *)
(*                                                                         *)
(* A Python dict is modelled as the sequence of its <<key, value>> items   *)
(* in iteration (insertion) order.  Field values are strings in the        *)
(* program; they only ever get compared, so a value is modelled by its     *)
(* rank 1..NumValues in the ordinal string order.  File names and member   *)
(* full names are sequences of one-character strings, because the script   *)
(* rewrites and splits them.                                               *)
(***************************************************************************)
EXTENDS FiniteSets, Integers, Sequences, TLC

\* ---- bounds of the model ------------------------------------------------
MaxLen == 3
NumValues == 2
MaxMembers == 3

Values == 1..NumValues
Fields == {"party", "province"}

\* a record of the collection handed to a tabulator: any subset of the fields
Records == UNION {[D -> Values] : D \in SUBSET Fields}

RECURSIVE SeqsUpTo(_, _)
SeqsUpTo(S, n) ==
  IF n = 0 THEN {<<>>}
  ELSE LET shorter == SeqsUpTo(S, n - 1)
       IN shorter \cup {Append(s, x) : s \in {t \in shorter : Len(t) = n - 1}, x \in S}

\* ---- Python dict as an item sequence ------------------------------------
DictHas(d, k) == \E i \in 1..Len(d) : d[i][1] = k

DictGet(d, k) == d[CHOOSE i \in 1..Len(d) : d[i][1] = k][2]

\* d[k] = v : an existing key keeps its position, a new key goes last
DictSet(d, k, v) ==
  IF DictHas(d, k)
  THEN [i \in 1..Len(d) |-> IF d[i][1] = k THEN <<k, v>> ELSE d[i]]
  ELSE Append(d, <<k, v>>)

DictKeys(d) == [i \in 1..Len(d) |-> d[i][1]]

DictValues(d) == [i \in 1..Len(d) |-> d[i][2]]

\* ---- outcomes of a call --------------------------------------------------
Return(v) == [kind |-> "return", value |-> v]

KeyError == [kind |-> "KeyError", value |-> <<>>]

\* outcome of the peek-first variant of count_member on an empty list
IndexError == [kind |-> "IndexError", value |-> <<>>]

NotCalled == [kind |-> "none", value |-> <<>>]

\* ---- builtins ------------------------------------------------------------
\* sorted(S) of a set of values: ascending
RECURSIVE sorted(_)
sorted(S) ==
  IF S = {} THEN <<>>
  ELSE LET m == CHOOSE x \in S : \A y \in S : x <= y
       IN <<m>> \o sorted(S \ {m})

sorted_reversed(S) ==
  LET a == sorted(S) IN [i \in 1..Len(a) |-> a[Len(a) + 1 - i]]

RemoveAt(s, i) == [j \in 1..(Len(s) - 1) |-> IF j < i THEN s[j] ELSE s[j + 1]]

\* variant: the sort without reverse=True
RECURSIVE sorted_by_count_asc(_)
sorted_by_count_asc(d) ==
  IF d = <<>> THEN <<>>
  ELSE LET i == CHOOSE j \in 1..Len(d) :
                  /\ \A k \in 1..Len(d) : d[k][2] >= d[j][2]
                  /\ \A k \in 1..(j - 1) : d[k][2] > d[j][2]
       IN <<d[i]>> \o sorted_by_count_asc(RemoveAt(d, i))

\* dict(sorted(d.items(), key=lambda x: x[1], reverse=True)): a stable sort,
\* items of equal count keep the order they had in d
RECURSIVE sorted_by_count_desc(_)
sorted_by_count_desc(d) ==
  IF d = <<>> THEN <<>>
  ELSE LET i == CHOOSE j \in 1..Len(d) :
                  /\ \A k \in 1..Len(d) : d[k][2] <= d[j][2]
                  /\ \A k \in 1..(j - 1) : d[k][2] < d[j][2]
       IN <<d[i]>> \o sorted_by_count_desc(RemoveAt(d, i))

\* the generator dictionary[key] for dictionary in dict_list raises KeyError
\* on the first record without the key
Lacks(key, dict_list) == \E i \in 1..Len(dict_list) : key \notin DOMAIN dict_list[i]

\* variant: the distinct values in order of first occurrence, not sorted
unique_values_first_seen(key, dict_list) ==
  LET firsts == {i \in 1..Len(dict_list) :
                   \A j \in 1..(i - 1) : dict_list[j][key] # dict_list[i][key]}
      order == sorted(firsts)
  IN [n \in 1..Len(order) |-> dict_list[order[n]][key]]

unique_values_of(key, dict_list) ==
  sorted({dict_list[i][key] : i \in 1..Len(dict_list)})

\* ---- count_member --------------------------------------------------------
\* variant: the inner loop misses the first record
count_loop_skipfirst(key, unique_value, dict_list) ==
  Cardinality({i \in 2..Len(dict_list) : dict_list[i][key] = unique_value})

\* the inner loop: count the records whose field equals unique_value
RECURSIVE count_loop(_, _, _)
count_loop(key, unique_value, dict_list) ==
  IF dict_list = <<>> THEN 0
  ELSE (IF Head(dict_list)[key] = unique_value THEN 1 ELSE 0)
         + count_loop(key, unique_value, Tail(dict_list))

RECURSIVE count_outer(_, _, _, _)
count_outer(key, unique_values, dict_list, results) ==
  IF unique_values = <<>> THEN results
  ELSE count_outer(key, Tail(unique_values), dict_list,
                   DictSet(results, Head(unique_values),
                           count_loop(key, Head(unique_values), dict_list)))

\* variant: the field is looked up in dict_list[0] before anything else
count_member_peekfirst(key, dict_list, sort_keys) ==
  IF dict_list = <<>> THEN IndexError
  ELSE IF Lacks(key, dict_list) THEN KeyError
  ELSE LET unique_values == unique_values_of(key, dict_list)
           results == count_outer(key, unique_values, dict_list, <<>>)
       IN IF sort_keys THEN Return(results)
          ELSE Return(sorted_by_count_desc(results))

count_member(key, dict_list, sort_keys) ==
  IF Lacks(key, dict_list) THEN KeyError
  ELSE LET unique_values == unique_values_of(key, dict_list)
           results == count_outer(key, unique_values, dict_list, <<>>)
       IN IF sort_keys THEN Return(results)
          ELSE Return(sorted_by_count_desc(results))

\* ---- cross_count_member --------------------------------------------------
\* variant: the comparison with unique_value_1 is left out
cross_loop_key2only(key1, key2, unique_value_1, unique_value_2, dict_list) ==
  Cardinality({i \in 1..Len(dict_list) : dict_list[i][key2] = unique_value_2})

RECURSIVE cross_loop(_, _, _, _, _)
cross_loop(key1, key2, unique_value_1, unique_value_2, dict_list) ==
  IF dict_list = <<>> THEN 0
  ELSE (IF /\ Head(dict_list)[key2] = unique_value_2
           /\ Head(dict_list)[key1] = unique_value_1 THEN 1 ELSE 0)
         + cross_loop(key1, key2, unique_value_1, unique_value_2, Tail(dict_list))

\* variant: every count is stored, zero included
RECURSIVE cross_inner_keepzero(_, _, _, _, _, _, _)
cross_inner_keepzero(key1, key2, unique_value_1, unique_values_2, dict_list, sort_keys, st) ==
  IF unique_values_2 = <<>> THEN st
  ELSE LET unique_value_2 == Head(unique_values_2)
           count == cross_loop(key1, key2, unique_value_1, unique_value_2, dict_list)
           added == DictSet(st.cross_count, unique_value_2, count)
           cross_count == IF ~sort_keys THEN sorted_by_count_desc(added) ELSE added
       IN cross_inner_keepzero(key1, key2, unique_value_1, Tail(unique_values_2), dict_list,
                               sort_keys,
                               [cross_count |-> cross_count,
                                results |-> DictSet(st.results, unique_value_1, cross_count)])

\* variant: the re-sort runs before the count of the iteration is stored
RECURSIVE cross_inner_sortfirst(_, _, _, _, _, _, _)
cross_inner_sortfirst(key1, key2, unique_value_1, unique_values_2, dict_list, sort_keys, st) ==
  IF unique_values_2 = <<>> THEN st
  ELSE LET unique_value_2 == Head(unique_values_2)
           count == cross_loop(key1, key2, unique_value_1, unique_value_2, dict_list)
           resorted == IF ~sort_keys THEN sorted_by_count_desc(st.cross_count)
                       ELSE st.cross_count
           cross_count == IF count > 0 THEN DictSet(resorted, unique_value_2, count)
                          ELSE resorted
       IN cross_inner_sortfirst(key1, key2, unique_value_1, Tail(unique_values_2), dict_list,
                                sort_keys,
                                [cross_count |-> cross_count,
                                 results |-> DictSet(st.results, unique_value_1, cross_count)])

\* one pass of the loop over unique_values_2 for a fixed unique_value_1;
\* st = [cross_count, results]; results[unique_value_1] is assigned, and
\* cross_count re-sorted when not sort_keys, at the end of every iteration
RECURSIVE cross_inner(_, _, _, _, _, _, _)
cross_inner(key1, key2, unique_value_1, unique_values_2, dict_list, sort_keys, st) ==
  IF unique_values_2 = <<>> THEN st
  ELSE LET unique_value_2 == Head(unique_values_2)
           count == cross_loop(key1, key2, unique_value_1, unique_value_2, dict_list)
           added == IF count > 0 THEN DictSet(st.cross_count, unique_value_2, count)
                    ELSE st.cross_count
           cross_count == IF ~sort_keys THEN sorted_by_count_desc(added) ELSE added
       IN cross_inner(key1, key2, unique_value_1, Tail(unique_values_2), dict_list, sort_keys,
                      [cross_count |-> cross_count,
                       results |-> DictSet(st.results, unique_value_1, cross_count)])

RECURSIVE cross_outer(_, _, _, _, _, _, _)
cross_outer(key1, key2, unique_values_1, unique_values_2, dict_list, sort_keys, results) ==
  IF unique_values_1 = <<>> THEN results
  ELSE cross_outer(key1, key2, Tail(unique_values_1), unique_values_2, dict_list, sort_keys,
                   cross_inner(key1, key2, Head(unique_values_1), unique_values_2, dict_list,
                               sort_keys, [cross_count |-> <<>>, results |-> results]).results)

cross_count_member(key1, key2, dict_list, sort_keys) ==
  IF Lacks(key1, dict_list) THEN KeyError
  ELSE IF Lacks(key2, dict_list) THEN KeyError
  ELSE LET unique_values_1 == unique_values_of(key1, dict_list)
           unique_values_2 == unique_values_of(key2, dict_list)
       IN Return(cross_outer(key1, key2, unique_values_1, unique_values_2,
                             dict_list, sort_keys, <<>>))

\* ---- cross_distinct_key --------------------------------------------------
\* variant: a record without key2 is skipped instead of raising
RECURSIVE distinct_loop_skipmissing(_, _, _, _, _)
distinct_loop_skipmissing(key1, key2, unique_value_1, dict_list, distinct_key2) ==
  IF dict_list = <<>> THEN Return(distinct_key2)
  ELSE IF Head(dict_list)[key1] = unique_value_1 /\ key2 \in DOMAIN Head(dict_list)
       THEN distinct_loop_skipmissing(key1, key2, unique_value_1, Tail(dict_list),
                                      distinct_key2 \cup {Head(dict_list)[key2]})
       ELSE distinct_loop_skipmissing(key1, key2, unique_value_1, Tail(dict_list),
                                      distinct_key2)

\* the loop over dict_list for one unique_value_1: dictionary[key2] is read
\* only for the records whose key1 matches, and raises when key2 is absent
RECURSIVE distinct_loop(_, _, _, _, _)
distinct_loop(key1, key2, unique_value_1, dict_list, distinct_key2) ==
  IF dict_list = <<>> THEN Return(distinct_key2)
  ELSE IF Head(dict_list)[key1] = unique_value_1
       THEN IF key2 \notin DOMAIN Head(dict_list) THEN KeyError
            ELSE distinct_loop(key1, key2, unique_value_1, Tail(dict_list),
                               distinct_key2 \cup {Head(dict_list)[key2]})
       ELSE distinct_loop(key1, key2, unique_value_1, Tail(dict_list), distinct_key2)

\* variant: the secondary values are listed in descending order
RECURSIVE distinct_outer_reversed(_, _, _, _, _)
distinct_outer_reversed(key1, key2, unique_values_1, dict_list, results) ==
  IF unique_values_1 = <<>> THEN Return(results)
  ELSE LET r == distinct_loop(key1, key2, Head(unique_values_1), dict_list, {})
       IN IF r.kind # "return" THEN r
          ELSE distinct_outer_reversed(key1, key2, Tail(unique_values_1), dict_list,
                                       DictSet(results, Head(unique_values_1),
                                               sorted_reversed(r.value)))

RECURSIVE distinct_outer(_, _, _, _, _)
distinct_outer(key1, key2, unique_values_1, dict_list, results) ==
  IF unique_values_1 = <<>> THEN Return(results)
  ELSE LET r == distinct_loop(key1, key2, Head(unique_values_1), dict_list, {})
       IN IF r.kind # "return" THEN r
          ELSE distinct_outer(key1, key2, Tail(unique_values_1), dict_list,
                              DictSet(results, Head(unique_values_1), sorted(r.value)))

cross_distinct_key(key1, key2, dict_list) ==
  IF Lacks(key1, dict_list) THEN KeyError
  ELSE distinct_outer(key1, key2, unique_values_of(key1, dict_list), dict_list, <<>>)

\* ---- the script: file names ---------------------------------------------
\* full names a scraped tile can carry (sequences of characters)
Names == {<<"a", " ", "b">>, <<"a", "-", "b">>, <<>>}

\* files the output directory can hold before the run
OldFiles == {<<"o", ".", "J", "P", "G">>, <<"n", ".", "t", "x", "t">>}

\* member["fullname"].replace(" ", "-") + ".jpg"
imgFile(fullname) ==
  [i \in 1..Len(fullname) |-> IF fullname[i] = " " THEN "-" ELSE fullname[i]]
    \o <<".", "j", "p", "g">>

excelFilename == <<"m", ".", "x", "l", "s", "x">>

docFilename == <<"r", ".", "d", "o", "c", "x">>

\* str.lower() on the characters that occur in the modelled file names
lower(s) ==
  [i \in 1..Len(s) |-> CASE s[i] = "J" -> "j"
                         [] s[i] = "P" -> "p"
                         [] s[i] = "G" -> "g"
                         [] OTHER -> s[i]]

\* os.path.splitext(f)[1]: the part from the last dot on, unless the name has
\* no dot or nothing but dots before it
splitext_ext(f) ==
  LET dots == {i \in 1..Len(f) : f[i] = "."}
      dotIndex == IF dots = {} THEN 0 ELSE CHOOSE i \in dots : \A j \in dots : j <= i
  IN IF dotIndex > 0 /\ \E k \in 1..(dotIndex - 1) : f[k] # "."
     THEN SubSeq(f, dotIndex, Len(f))
     ELSE <<>>

\* the loop that counts the .jpg files of the working directory
count_jpg(listdir) ==
  Cardinality({f \in listdir : lower(splitext_ext(f)) = <<".", "j", "p", "g">>})

\* ---- state ---------------------------------------------------------------
VARIABLES
  dict_list,                          \* the collection handed to a tabulator
  fn, key1, key2, sort_keys,          \* the call made and its arguments
  result,                             \* the outcome of that call
  pc,                                 \* position of the script
  dirExists, files,                   \* the "parliament" directory
  status_code,                        \* req.status_code
  members,                            \* the members list
  exported, ws_rows,                  \* export loop index, worksheet rows
  totalCount, partyCount, provinceCount,
  provincePartyCount, partyProvinceCount

tabVars == <<dict_list, fn, key1, key2, sort_keys, result>>

scriptVars == <<pc, dirExists, files, status_code, members, exported, ws_rows,
                totalCount, partyCount, provinceCount,
                provincePartyCount, partyProvinceCount>>

vars == <<tabVars, scriptVars>>

\* a scraped member: the fields the script aggregates or builds names from
MemberRecords == [fullname : Names, party : Values, province : Values]

\* ---- the tabulators called on arbitrary collections -----------------------
\* A run takes a collection and makes one call, of any of the three
\* tabulators with any field names and flag; the state keeps the arguments
\* next to the outcome.
TabIdle ==
  /\ fn = "none"
  /\ key1 = "party"
  /\ key2 = "party"
  /\ sort_keys = TRUE
  /\ result = NotCalled

ScriptIdle ==
  /\ pc = "idle"
  /\ dirExists = FALSE
  /\ files = {}
  /\ status_code = 0
  /\ members = <<>>
  /\ exported = 0
  /\ ws_rows = 0
  /\ totalCount = 0
  /\ partyCount = <<>>
  /\ provinceCount = <<>>
  /\ provincePartyCount = <<>>
  /\ partyProvinceCount = <<>>

InitTab ==
  /\ dict_list \in SeqsUpTo(Records, MaxLen)
  /\ TabIdle
  /\ ScriptIdle

CallCountMember ==
  /\ fn = "none"
  /\ \E key \in Fields, flag \in BOOLEAN :
       /\ fn' = "count_member"
       /\ key1' = key
       /\ sort_keys' = flag
       /\ result' = count_member(key, dict_list, flag)
  /\ UNCHANGED <<dict_list, key2, scriptVars>>

CallCrossCountMember ==
  /\ fn = "none"
  /\ \E k1 \in Fields, k2 \in Fields, flag \in BOOLEAN :
       /\ fn' = "cross_count_member"
       /\ key1' = k1
       /\ key2' = k2
       /\ sort_keys' = flag
       /\ result' = cross_count_member(k1, k2, dict_list, flag)
  /\ UNCHANGED <<dict_list, scriptVars>>

CallCrossDistinctKey ==
  /\ fn = "none"
  /\ \E k1 \in Fields, k2 \in Fields :
       /\ fn' = "cross_distinct_key"
       /\ key1' = k1
       /\ key2' = k2
       /\ result' = cross_distinct_key(k1, k2, dict_list)
  /\ UNCHANGED <<dict_list, sort_keys, scriptVars>>

NextTab ==
  \/ CallCountMember
  \/ CallCrossCountMember
  \/ CallCrossDistinctKey

SpecTab == InitTab /\ [][NextTab]_vars

\* ---- the script -----------------------------------------------------------
Init ==
  /\ dict_list = <<>>
  /\ TabIdle
  /\ pc = "start"
  /\ dirExists \in BOOLEAN
  /\ files \in (IF dirExists THEN SUBSET OldFiles ELSE {{}})
  /\ status_code = 0
  /\ members = <<>>
  /\ exported = 0
  /\ ws_rows = 0
  /\ totalCount = 0
  /\ partyCount = <<>>
  /\ provinceCount = <<>>
  /\ provincePartyCount = <<>>
  /\ partyProvinceCount = <<>>

\* create the output directory if it is missing, then chdir into it
MakeDir ==
  /\ pc = "start"
  /\ dirExists' = TRUE
  /\ pc' = "fetch"
  /\ UNCHANGED <<tabVars, files, status_code, members, exported, ws_rows,
                 totalCount, partyCount, provinceCount,
                 provincePartyCount, partyProvinceCount>>

\* requests.get(url); anything but 200 prints the error message and ends
Fetch ==
  /\ pc = "fetch"
  /\ \E sc \in {200, 404} :
       /\ status_code' = sc
       /\ pc' = IF sc = 200 THEN "scrape" ELSE "done"
  /\ UNCHANGED <<tabVars, dirExists, files, members, exported, ws_rows,
                 totalCount, partyCount, provinceCount,
                 provincePartyCount, partyProvinceCount>>

\* one iteration of the loop over memberContainers
ScrapeMember ==
  /\ pc = "scrape"
  /\ Len(members) < MaxMembers
  /\ \E member \in MemberRecords : members' = Append(members, member)
  /\ UNCHANGED <<tabVars, pc, dirExists, files, status_code, exported, ws_rows,
                 totalCount, partyCount, provinceCount,
                 provincePartyCount, partyProvinceCount>>

\* the loop is over; the workbook is created and the header row appended
ScrapeDone ==
  /\ pc = "scrape"
  /\ ws_rows' = 1
  /\ exported' = 0
  /\ pc' = "export"
  /\ UNCHANGED <<tabVars, dirExists, files, status_code, members,
                 totalCount, partyCount, provinceCount,
                 provincePartyCount, partyProvinceCount>>

\* one iteration of the loop over members: the row, then the image file
ExportMember ==
  /\ pc = "export"
  /\ exported < Len(members)
  /\ ws_rows' = ws_rows + 1
  /\ files' = files \cup {imgFile(members[exported + 1].fullname)}
  /\ exported' = exported + 1
  /\ UNCHANGED <<tabVars, pc, dirExists, status_code, members,
                 totalCount, partyCount, provinceCount,
                 provincePartyCount, partyProvinceCount>>

SaveWorkbook ==
  /\ pc = "export"
  /\ exported = Len(members)
  /\ files' = files \cup {excelFilename}
  /\ pc' = "report"
  /\ UNCHANGED <<tabVars, dirExists, status_code, members, exported, ws_rows,
                 totalCount, partyCount, provinceCount,
                 provincePartyCount, partyProvinceCount>>

\* the docx report: the overview and the four aggregated sections
GenerateReport ==
  /\ pc = "report"
  /\ totalCount' = count_jpg(files)
  /\ partyCount' = count_member("party", members, FALSE).value
  /\ provinceCount' = count_member("province", members, TRUE).value
  /\ provincePartyCount' = cross_count_member("province", "party", members, FALSE).value
  /\ partyProvinceCount' = cross_distinct_key("party", "province", members).value
  /\ files' = files \cup {docFilename}
  /\ pc' = "done"
  /\ UNCHANGED <<tabVars, dirExists, status_code, members, exported, ws_rows>>

Next ==
  \/ MakeDir
  \/ Fetch
  \/ ScrapeMember
  \/ ScrapeDone
  \/ ExportMember
  \/ SaveWorkbook
  \/ GenerateReport

Spec == Init /\ [][Next]_vars

\* ---- what the claims are stated with --------------------------------------
Has(key) == \A i \in 1..Len(dict_list) : key \in DOMAIN dict_list[i]

FieldValues(key) == {dict_list[i][key] : i \in 1..Len(dict_list)}

NumWith(key, v) == Cardinality({i \in 1..Len(dict_list) : dict_list[i][key] = v})

NumBoth(p, s) ==
  Cardinality({i \in 1..Len(dict_list) : dict_list[i][key1] = p /\ dict_list[i][key2] = s})

KeySet(d) == {d[i][1] : i \in 1..Len(d)}

NoDupKeys(d) == \A i, j \in 1..Len(d) : d[i][1] = d[j][1] => i = j

RECURSIVE SumSeq(_)
SumSeq(s) == IF s = <<>> THEN 0 ELSE Head(s) + SumSeq(Tail(s))

Ascending(s) == \A i \in 1..(Len(s) - 1) : s[i] < s[i + 1]

NonIncreasing(s) == \A i \in 1..(Len(s) - 1) : s[i] >= s[i + 1]

Perms(n) == {f \in [1..n -> 1..n] : \A i, j \in 1..n : f[i] = f[j] => i = j}

\* the permutations of the positions of a collection of each length
PermsOfLen == [n \in 0..MaxLen |-> Perms(n)]

Permuted(f) == [i \in 1..Len(dict_list) |-> dict_list[f[i]]]

Count == fn = "count_member"

Cross == fn = "cross_count_member"

Distinct == fn = "cross_distinct_key"

Returned == result.kind = "return"

\* C1: count_member returns a mapping whose keys are exactly the distinct
\* values of the field, each mapped to the number of records having it, so
\* the counts sum to the number of records (both settings of sort_keys).
C1_CountMemberExact ==
  (Count /\ Has(key1)) =>
     /\ Returned
     /\ NoDupKeys(result.value)
     /\ KeySet(result.value) = FieldValues(key1)
     /\ \A i \in 1..Len(result.value) :
          result.value[i][2] = NumWith(key1, result.value[i][1])
     /\ SumSeq(DictValues(result.value)) = Len(dict_list)

C1_Witness ==
  /\ Count
  /\ Returned
  /\ ~sort_keys
  /\ Len(dict_list) >= 3
  /\ Len(result.value) = 2

\* C2: cross_count_member returns an outer mapping keyed by exactly the
\* distinct key1 values; the nested mapping of p holds s iff some record has
\* key1 = p and key2 = s, mapped to the number of such records, never 0.
C2_CrossCountExact ==
  (Cross /\ Has(key1) /\ Has(key2)) =>
     /\ Returned
     /\ NoDupKeys(result.value)
     /\ KeySet(result.value) = FieldValues(key1)
     /\ \A i \in 1..Len(result.value) :
          LET p == result.value[i][1]
              nested == result.value[i][2]
          IN /\ NoDupKeys(nested)
             /\ \A s \in Values : DictHas(nested, s) <=> NumBoth(p, s) > 0
             /\ \A j \in 1..Len(nested) :
                  /\ nested[j][2] = NumBoth(p, nested[j][1])
                  /\ nested[j][2] # 0

C2_Witness ==
  /\ Cross
  /\ Returned
  /\ key1 # key2
  /\ Len(result.value) = 2
  /\ Len(result.value[1][2]) = 1
  /\ result.value[1][2][1][2] = 2

\* C3: cross_distinct_key maps each distinct key1 value (outer keys
\* ascending) to exactly the key2 values of the records with that key1 value,
\* without duplicates and in strictly ascending order.
C3_DistinctExact ==
  (Distinct /\ Has(key1) /\ Has(key2)) =>
     /\ Returned
     /\ Ascending(DictKeys(result.value))
     /\ KeySet(result.value) = FieldValues(key1)
     /\ \A i \in 1..Len(result.value) :
          LET p == result.value[i][1]
              listed == result.value[i][2]
          IN /\ Ascending(listed)
             /\ {listed[j] : j \in 1..Len(listed)}
                  = {dict_list[k][key2] : k \in {n \in 1..Len(dict_list) : dict_list[n][key1] = p}}

C3_Witness ==
  /\ Distinct
  /\ Returned
  /\ key1 # key2
  /\ Len(dict_list) >= 3
  /\ \E i \in 1..Len(result.value) : Len(result.value[i][2]) = 2
  /\ \E i, j \in 1..Len(dict_list) : i # j /\ dict_list[i] = dict_list[j]

\* C4: count_member's keys are strictly ascending in iteration order when
\* sort_keys is set, and its counts are non-increasing when it is not.
C4_CountMemberOrder ==
  (Count /\ Returned) =>
     /\ sort_keys => Ascending(DictKeys(result.value))
     /\ ~sort_keys => NonIncreasing(DictValues(result.value))

C4_Witness ==
  /\ Count
  /\ Returned
  /\ ~sort_keys
  /\ Len(result.value) = 2
  /\ result.value[1][1] > result.value[2][1]
  /\ result.value[1][2] > result.value[2][2]

\* C5: cross_count_member's outer keys are ascending under both flags; each
\* nested mapping is ascending by secondary value when sort_keys is set and
\* non-increasing by count when it is not, the last secondary value included.
C5_CrossCountOrder ==
  (Cross /\ Returned) =>
     /\ Ascending(DictKeys(result.value))
     /\ \A i \in 1..Len(result.value) :
          /\ sort_keys => Ascending(DictKeys(result.value[i][2]))
          /\ ~sort_keys => NonIncreasing(DictValues(result.value[i][2]))

C5_Witness ==
  /\ Cross
  /\ Returned
  /\ ~sort_keys
  /\ \E i \in 1..Len(result.value) :
       LET nested == result.value[i][2]
       IN /\ Len(nested) = 2
          /\ nested[1][1] > nested[2][1]
          /\ nested[1][2] > nested[2][2]

\* C6: when a requested field is absent from some record, each tabulator
\* raises the error to its caller and returns no mapping.
C6_MissingFieldRaises ==
  /\ (Count /\ ~Has(key1)) => result = KeyError
  /\ (Cross /\ (~Has(key1) \/ ~Has(key2))) => result = KeyError
  /\ (Distinct /\ (~Has(key1) \/ ~Has(key2))) => result = KeyError

C6_Witness ==
  /\ Distinct
  /\ result = KeyError
  /\ Has(key1)
  /\ ~Has(key2)
  /\ key2 \in DOMAIN dict_list[1]
  /\ Cardinality(FieldValues(key1)) = 2

\* C7: on an empty collection each tabulator returns an empty mapping, not an
\* error, whatever the field names and the flag.
C7_EmptyInput ==
  (dict_list = <<>> /\ fn # "none") => result = Return(<<>>)

C7_Witness ==
  /\ dict_list = <<>>
  /\ Cross
  /\ ~sort_keys
  /\ result = Return(<<>>)

\* the two rearrangements every permutation is composed of
SwapFirstTwo(s) == IF Len(s) < 2 THEN s ELSE <<s[2], s[1]>> \o SubSeq(s, 3, Len(s))

RotateLeft(s) == IF s = <<>> THEN s ELSE Tail(s) \o <<Head(s)>>

SameOutcomeOn(rearranged) ==
  /\ Count => result = count_member(key1, rearranged, sort_keys)
  /\ Cross => result = cross_count_member(key1, key2, rearranged, sort_keys)
  /\ Distinct => result = cross_distinct_key(key1, key2, rearranged)

\* C8: the outcome of each tabulator, iteration order included, does not
\* depend on the order of the records, also when counts tie in the
\* sort-by-count mode.  Stated for every collection against the collection
\* with its first two records swapped and against the collection rotated by
\* one; every permutation is a composition of these two, so permuted
\* collections have identical outcomes.
C8_OrderIndependent ==
  /\ SameOutcomeOn(SwapFirstTwo(dict_list))
  /\ SameOutcomeOn(RotateLeft(dict_list))

\* C8, stated directly: the outcome is that of every permutation of the
\* collection.
C8_EveryPermutation ==
  \A f \in PermsOfLen[Len(dict_list)] : SameOutcomeOn(Permuted(f))

C8_Witness ==
  /\ Count
  /\ Returned
  /\ ~sort_keys
  /\ Len(result.value) = 2
  /\ result.value[1][2] = result.value[2][2]
  /\ dict_list[1][key1] > dict_list[2][key1]

\* C9: every count in the nested mapping cross_count_member returns for a
\* primary value is at most the count count_member returns for that value.
C9_CrossAtMostSingle ==
  (Cross /\ Returned) =>
     LET single == count_member(key1, dict_list, sort_keys)
     IN /\ single.kind = "return"
        /\ \A i \in 1..Len(result.value) :
             /\ DictHas(single.value, result.value[i][1])
             /\ \A j \in 1..Len(result.value[i][2]) :
                  result.value[i][2][j][2] <= DictGet(single.value, result.value[i][1])

C9_Witness ==
  /\ Cross
  /\ Returned
  /\ key1 # key2
  /\ \E i \in 1..Len(result.value) :
       /\ Len(result.value[i][2]) = 2
       /\ result.value[i][2][1][2]
            < DictGet(count_member(key1, dict_list, sort_keys).value, result.value[i][1])

\* C10: after a run whose listing page came back with status 200, the
\* report's 'Total count of members' equals the length of the members list.
C10_TotalCountIsMemberCount ==
  (pc = "done" /\ status_code = 200) => totalCount = Len(members)

====
